---- MODULE Spec2Model ----
(***************************************************************************)
(* A model of batchcopy.py: the ThreadedCopy engine (planner, task queue,  *)
(* worker pool), the handlers BatchCopy._on_start (with its start_copy     *)
(* session thread) and _on_remove_source_dir, and the log hand-off between *)
(* log_callback and the GUI thread.                                        *)
(*                                                                         *)
(* Paths are sequences of path components.  The file system is a set of    *)
(* directories and a set of <<path, size>> entries for each side.          *)
(***************************************************************************)
EXTENDS Integers, Sequences, FiniteSets, TLC

\* ------------------------------------------------------------------------
\* Bounds and input universe
\* ------------------------------------------------------------------------

\* How many times the Start button is pressed in one behaviour.
MaxSessions == 2

\* How many copy failures the environment injects in one behaviour.
MaxFaults == 1

\* How many lines are passed to log_callback in one behaviour.
MaxLines == 3

\* The source roots, in list-box order (sources_dirs).
Sources == <<"A", "B">>

\* The destination root (target_dir).
Target == "T"

\* Directory names that may sit directly under a source root, in listing order.
FolderUniverse == <<"VID_001", "PIC_001", "DCIM">>

\* File names that may sit in a folder, in listing order.
FileUniverse == <<"f1.bin", "f2.bin">>

\* File sizes in bytes.
Sizes == {10, 20}

\* The characters of each directory name (strings are atoms in TLA+).
NameChars(n) ==
    CASE n = "VID_001" -> <<"V", "I", "D", "_", "0", "0", "1">>
      [] n = "PIC_001" -> <<"P", "I", "C", "_", "0", "0", "1">>
      [] n = "DCIM"    -> <<"D", "C", "I", "M">>

\* The prefix tuple _on_start passes to init: ("VID_", "PIC_").
StartsWithPrefixes == << <<"V", "I", "D", "_">>, <<"P", "I", "C", "_">> >>

\* Byte counts the volumes may report: either side of the values at which
\* the count in GB, rounded to one decimal, changes (0.05, 0.15 and 0.25 GB).
ByteCounts ==
    {0, 1, 53687091, 53687092, 107374182, 161061273, 161061274, 268435456,
     268435457}

\* None, as the two fields of the sentinel stop() enqueues.
None == <<>>

Sentinel == [source |-> None, dest |-> None]

\* The value of stopAt while stop() has not been called.
NotStopped == [handed |-> <<>>, inflight |-> {}, copied |-> 0, faults |-> 0]

VARIABLES
    srcDirs,      \* set of <<root, folder>>: the directories on the cards
    srcFiles,     \* set of << <<root, folder, file>>, size >>
    dstDirs,      \* set of folder names existing under the target
    dstFiles,     \* set of << <<folder, file>>, size >>
    mkdirFails,   \* environment: os.mkdir under the target raises OSError
    pc,           \* position of the start_copy thread
    stopping,     \* ThreadedCopy._stopping
    queue,        \* ThreadedCopy._file_queue: the items not yet dequeued
    unfinished,   \* Queue.unfinished_tasks: put() minus task_done()
    total_file_count,
    copied_file_count,
    threads,      \* ThreadedCopy._threads: the started workers
    wpc,          \* position of each worker in _worker_func
    wtask,        \* the item each worker holds
    session,      \* number of sessions started so far
    faults,       \* copy failures injected in the current session
    injected,     \* copy failures injected since the program started
    planned,      \* history: the tasks init enqueued, in order
    dequeued,     \* history: the items handed out by get(), in order
    dst0,         \* history: dstFiles when the current session started
    prev,         \* history: the counts of the session reported last
    trail,        \* history: the positions the current session went through
    sources_dirs, \* the entries of the source list box
    startswith,   \* the prefix tuple passed to init
    target_dir,   \* target_dir_value: "" while no target is selected
    used_space,   \* Helpers.get_used_space(sources_dirs), in bytes
    free_space,   \* Helpers.get_free_space(target_dir), in bytes
    target_exists,  \* os.path.exists(target_dir)
    button_start, \* state of the Start button
    copying,      \* BatchCopy.copying
    started,      \* history: how the last _on_start ended
    stopAt,       \* history: where the copies stood when stop() set the flag
    elapsed,      \* end - start in start_copy, in milliseconds
    duration,     \* the local duration of start_copy
    unprocessed_logs,  \* BatchCopy._unprocessed_logs
    rendered,     \* the lines BatchCopy.log has inserted into the text area
    appended,     \* history: the lines appended to the buffer, in order
    lock,         \* BatchCopy._lock: its holder, or "free"
    events,       \* the <<log_callback>> events not yet delivered
    lpc,          \* position of each logging thread in log_callback
    hpc           \* position of the GUI thread in _on_log_callback

vars == <<srcDirs, srcFiles, dstDirs, dstFiles, mkdirFails, pc, stopping, queue,
          unfinished, total_file_count, copied_file_count, threads, wpc, wtask,
          session, faults, injected, planned, dequeued, dst0, prev, trail,
          sources_dirs, startswith, target_dir, used_space, free_space, target_exists,
          button_start, copying, started, stopAt, elapsed, duration,
          unprocessed_logs, rendered, appended, lock, events, lpc, hpc>>

fsVars == <<srcDirs, srcFiles, mkdirFails>>

\* What the user selected and what the volumes report.
argVars == <<sources_dirs, startswith, target_dir, used_space, free_space>>

guiVars == <<target_exists, button_start, copying, started>>

timeVars == <<elapsed, duration>>

logVars == <<unprocessed_logs, rendered, appended, lock, events, lpc, hpc>>

Workers == 1..Len(Sources)

\* ------------------------------------------------------------------------
\* File-system helpers
\* ------------------------------------------------------------------------

Range(seq) == {seq[i] : i \in 1..Len(seq)}

\* str.startswith
StartsWith(chars, prefix) ==
    /\ Len(chars) >= Len(prefix)
    /\ SubSeq(chars, 1, Len(prefix)) = prefix

\* Helpers.get_subdirs(s, p): the names of the immediate subdirectories of s
\* whose name starts with p.
get_subdirs(dirs, s, p) ==
    SelectSeq(FolderUniverse,
              LAMBDA d : <<s, d>> \in dirs /\ StartsWith(NameChars(d), p))

\* os.path.exists(path) for a file path of one side.
Exists(files, path) == \E e \in files : e[1] = path

\* os.path.getsize(path)
GetSize(files, path) == (CHOOSE e \in files : e[1] = path)[2]

\* os.remove(path)
Remove(files, path) == {e \in files : e[1] # path}

\* os.listdir(source) filtered by os.path.isfile: the file names in s/f.
ListFiles(files, s, f) ==
    SelectSeq(FileUniverse, LAMBDA n : Exists(files, <<s, f, n>>))

\* ------------------------------------------------------------------------
\* ThreadedCopy.init: the planner
\* ------------------------------------------------------------------------

\* A collection that keeps a folder name once per card that holds it.
AppendAll(folders, subdirs) == folders \o subdirs

\* for d in subdirs: if d not in folders: folders.append(d)
RECURSIVE AppendNew(_, _)
AppendNew(folders, subdirs) ==
    IF subdirs = <<>> THEN folders
    ELSE AppendNew(IF Head(subdirs) \in Range(folders) THEN folders
                   ELSE Append(folders, Head(subdirs)),
                   Tail(subdirs))

\* for p in startswith: ... (one source root)
RECURSIVE CollectPrefixes(_, _, _, _)
CollectPrefixes(folders, dirs, s, prefixes) ==
    IF prefixes = <<>> THEN folders
    ELSE CollectPrefixes(AppendNew(folders, get_subdirs(dirs, s, Head(prefixes))),
                         dirs, s, Tail(prefixes))

\* for s in sources: for p in startswith: ...
RECURSIVE CollectFolders(_, _, _, _)
CollectFolders(folders, dirs, sources, prefixes) ==
    IF sources = <<>> THEN folders
    ELSE CollectFolders(CollectPrefixes(folders, dirs, Head(sources), prefixes),
                        dirs, Tail(sources), prefixes)

\* "Creating target folders": os.mkdir raises for a folder that is missing
\* when the target refuses it; only FileExistsError is caught there.
MkdirRaises(folders, ddirs, refuses) ==
    refuses /\ \E f \in Range(folders) : f \notin ddirs

\* A planner that never skips: it plans a file whose copy is already there.
PlanFileNoSkip(st, files, s, f, filename) ==
    [dst |-> Remove(st.dst, <<f, filename>>),
     q |-> Append(st.q, [source |-> <<s, f, filename>>, dest |-> <<Target, f>>]),
     total |-> st.total + 1]

\* A planner that skips whatever exists, whatever its size.
PlanFileKeepStale(st, files, s, f, filename) ==
    IF Exists(st.dst, <<f, filename>>) THEN st
    ELSE [dst |-> st.dst,
          q |-> Append(st.q, [source |-> <<s, f, filename>>, dest |-> <<Target, f>>]),
          total |-> st.total + 1]

\* A planner that enqueues without counting.
PlanFileUncounted(st, files, s, f, filename) ==
    IF /\ Exists(st.dst, <<f, filename>>)
       /\ GetSize(st.dst, <<f, filename>>) = GetSize(files, <<s, f, filename>>)
    THEN st
    ELSE [dst |-> Remove(st.dst, <<f, filename>>),
          q |-> Append(st.q, [source |-> <<s, f, filename>>, dest |-> <<Target, f>>]),
          total |-> st.total]

\* A planner that enqueues a file of another size without deleting the old copy.
PlanFileNoDelete(st, files, s, f, filename) ==
    IF /\ Exists(st.dst, <<f, filename>>)
       /\ GetSize(st.dst, <<f, filename>>) = GetSize(files, <<s, f, filename>>)
    THEN st
    ELSE [dst |-> st.dst,
          q |-> Append(st.q, [source |-> <<s, f, filename>>, dest |-> <<Target, f>>]),
          total |-> st.total + 1]

\* A planner that deletes a copy of another size without enqueueing the file.
PlanFileDeleteOnly(st, files, s, f, filename) ==
    IF Exists(st.dst, <<f, filename>>)
    THEN IF GetSize(st.dst, <<f, filename>>) = GetSize(files, <<s, f, filename>>)
         THEN st
         ELSE [dst |-> Remove(st.dst, <<f, filename>>), q |-> st.q,
               total |-> st.total]
    ELSE [dst |-> st.dst,
          q |-> Append(st.q, [source |-> <<s, f, filename>>, dest |-> <<Target, f>>]),
          total |-> st.total + 1]

\* The body of "for filename in source_filenames".  state is the planner's
\* running state: the destination files, the queue and total_file_count
\* (bound once to st, so that it is computed once).
PlanFile(state, files, s, f, filename) ==
    LET source_file      == <<s, f, filename>>
        destination      == <<Target, f>>
        destination_file == <<f, filename>>
        task             == [source |-> source_file, dest |-> destination]
        enqueue(st, d)   == [dst |-> d, q |-> Append(st.q, task), total |-> st.total + 1]
        body(st) ==
            IF Exists(st.dst, destination_file)
            THEN IF GetSize(st.dst, destination_file) = GetSize(files, source_file)
                 THEN st
                 ELSE enqueue(st, Remove(st.dst, destination_file))
            ELSE enqueue(st, st.dst)
    IN  CHOOSE r \in {body(st) : st \in {state}} : TRUE

RECURSIVE PlanFiles(_, _, _, _, _)
PlanFiles(st, files, s, f, names) ==
    IF names = <<>> THEN st
    ELSE PlanFiles(PlanFile(st, files, s, f, Head(names)), files, s, f, Tail(names))

\* The body of "for s in sources" for one folder: a missing folder lists
\* nothing (FileNotFoundError is caught and logged as a warning).
PlanSource(st, dirs, files, s, f) ==
    LET source_filenames == IF <<s, f>> \in dirs THEN ListFiles(files, s, f) ELSE <<>>
    IN  PlanFiles(st, files, s, f, source_filenames)

\* A planner that gives up a folder at the first card that lacks it.
RECURSIVE PlanSourcesAbort(_, _, _, _, _)
PlanSourcesAbort(st, dirs, files, sources, f) ==
    IF sources = <<>> \/ <<Head(sources), f>> \notin dirs THEN st
    ELSE PlanSourcesAbort(PlanSource(st, dirs, files, Head(sources), f),
                          dirs, files, Tail(sources), f)

RECURSIVE PlanSources(_, _, _, _, _)
PlanSources(st, dirs, files, sources, f) ==
    IF sources = <<>> THEN st
    ELSE PlanSources(PlanSource(st, dirs, files, Head(sources), f),
                     dirs, files, Tail(sources), f)

RECURSIVE PlanFolders(_, _, _, _, _)
PlanFolders(st, dirs, files, sources, folders) ==
    IF folders = <<>> THEN st
    ELSE PlanFolders(PlanSources(st, dirs, files, sources, Head(folders)),
                     dirs, files, sources, Tail(folders))

\* "Preparing files": the whole double loop, from an empty queue.
PrepareFiles(dirs, files, dst, sources, folders) ==
    PlanFolders([dst |-> dst, q |-> <<>>, total |-> 0], dirs, files, sources, folders)

\* ------------------------------------------------------------------------
\* Initial states: the cards, the target and a fresh program
\* ------------------------------------------------------------------------

\* No two entries of a tree name the same path.
Functional(tree) == \A a, b \in tree : a[1] = b[1] => a = b

\* The media files the cards may hold: a file name the two cards share, in
\* either size, and one file and one folder that a single card has.
SrcEntries ==
    {<< <<s, "VID_001", "f1.bin">>, z >> : s \in Range(Sources), z \in Sizes}
    \cup {<< <<"A", "VID_001", "f2.bin">>, 20 >>, << <<"B", "PIC_001", "f1.bin">>, 10 >>}

\* Card "A" also holds a folder that is not a recording folder.
FixedEntries == {<< <<"A", "DCIM", "f1.bin">>, 10 >>}

\* The files the target may hold before the first session.
DstEntries == {<< <<"VID_001", "f1.bin">>, z >> : z \in Sizes}

NoWorker == [w \in Workers |-> "unstarted"]

NoTask == [w \in Workers |-> Sentinel]

\* The threads that call log_callback: the session thread (the planner and
\* the summary run on it) and the workers.
Loggers == {"session", "worker1", "worker2"}

\* A program that has just been constructed and shown.
FreshProgram ==
    /\ button_start = "normal"
    /\ copying = FALSE
    /\ started = "never"
    /\ stopAt = NotStopped
    /\ elapsed = 0
    /\ duration = 0
    /\ unprocessed_logs = <<>>
    /\ rendered = <<>>
    /\ appended = <<>>
    /\ lock = "free"
    /\ events = 0
    /\ lpc = [t \in Loggers |-> "idle"]
    /\ hpc = "idle"

\* Both cards are listed, the target folder exists and has room.
ReadyToCopy ==
    /\ sources_dirs = Sources
    /\ startswith = StartsWithPrefixes
    /\ target_dir = Target
    /\ target_exists = TRUE
    /\ used_space = 1
    /\ free_space = 268435457

Init ==
    /\ \E tree \in SUBSET SrcEntries :
          /\ Functional(tree)
          /\ srcFiles = tree \cup FixedEntries
    /\ srcDirs = {<<e[1][1], e[1][2]>> : e \in srcFiles}
    /\ \E tree \in SUBSET DstEntries :
          /\ Functional(tree)
          /\ dstFiles = tree
    /\ dstDirs = {e[1][1] : e \in dstFiles}
    /\ mkdirFails \in BOOLEAN
    /\ pc = "Idle"
    /\ stopping = FALSE
    /\ queue = <<>>
    /\ unfinished = 0
    /\ total_file_count = 0
    /\ copied_file_count = 0
    /\ threads = {}
    /\ wpc = NoWorker
    /\ wtask = NoTask
    /\ session = 0
    /\ faults = 0
    /\ injected = 0
    /\ planned = <<>>
    /\ dequeued = <<>>
    /\ dst0 = dstFiles
    /\ prev = [faults |-> 0, copied |-> 0, total |-> 0]
    /\ trail = <<>>
    /\ FreshProgram
    /\ ReadyToCopy

\* ------------------------------------------------------------------------
\* BatchCopy._on_start.start_copy: the session thread
\* ------------------------------------------------------------------------

\* 1073741824: the bytes of one GB in _on_start.
GB == 1073741824

\* round(bytes / 1073741824, 1), in tenths of a GB.  The quotient is exact in
\* a float, and round() takes a tie to the even tenth.
RoundTenths(bytes) ==
    LET n == 5 * bytes
        d == GB \div 2
        q == n \div d
        r == n % d
    IN  IF 2 * r < d THEN q
        ELSE IF 2 * r > d THEN q + 1
        ELSE IF q % 2 = 0 THEN q ELSE q + 1

\* A gate that compares the byte counts themselves.
SpaceShortBytes(free, required) == free <= required

\* if space_free_gb <= space_required_gb: "Not enough space on target."
SpaceShort(free, required) == RoundTenths(free) <= RoundTenths(required)

\* A handler that leaves the Start button disabled when it returns early.
ButtonOnReturnStuck(isCopying) == "disabled"

\* finally: if not self.copying: self.button_start.config(state=tk.NORMAL)
ButtonOnReturn(isCopying) == IF isCopying THEN "disabled" ELSE "normal"

\* _on_start returns before a copy thread exists: nothing but the button and
\* (when os.mkdir(target_dir) succeeded) the target directory has changed.
StartAborts(why, targetNow) ==
    /\ started' = why
    /\ target_exists' = targetNow
    /\ button_start' = ButtonOnReturn(copying)
    /\ UNCHANGED <<copying, pc, session, trail, dst0>>

\* BatchCopy._on_start on the GUI thread: the checks, then the thread that
\* runs start_copy is created and started.  A call into Helpers (lines
\* 383-384) may raise: the except clause logs the error and the handler
\* returns through its finally clause.
OnStart ==
    /\ button_start = "normal"
    /\ session < MaxSessions
    /\ \E raises \in BOOLEAN :
       LET created == ~target_exists /\ ~mkdirFails
       IN  IF sources_dirs = <<>> THEN StartAborts("no source", target_exists)
           ELSE IF target_dir = "" THEN StartAborts("no target", target_exists)
           ELSE IF ~(target_exists \/ created)
                THEN StartAborts("target missing", target_exists)
           ELSE IF raises THEN StartAborts("exception", TRUE)
           ELSE IF SpaceShort(free_space, used_space)
                THEN StartAborts("no space", TRUE)
           ELSE /\ started' = "copying"
                /\ target_exists' = TRUE
                /\ copying' = TRUE
                /\ button_start' = ButtonOnReturn(TRUE)
                /\ pc' = "Planning"
                /\ session' = session + 1
                /\ trail' = <<"Planning">>
                /\ dst0' = dstFiles
    /\ UNCHANGED <<fsVars, argVars, timeVars, logVars, stopAt, dstDirs, dstFiles,
                   stopping, queue, unfinished, total_file_count,
                   copied_file_count, threads, wpc, wtask, faults, injected,
                   planned, dequeued, prev>>

\* self._threadedcopy = ThreadedCopy(); self._threadedcopy.init(...).
\* The new object replaces the one of the previous session, whose workers
\* (if any is still alive) hold the old queue and touch nothing else.
Plan ==
    /\ pc = "Planning"
    /\ \E folders \in {CollectFolders(<<>>, srcDirs, sources_dirs, startswith)} :
       \E st \in {PrepareFiles(srcDirs, srcFiles, dstFiles, sources_dirs, folders)} :
           IF MkdirRaises(folders, dstDirs, mkdirFails)
           THEN /\ pc' = "Crashed"
                /\ trail' = Append(trail, "Crashed")
                /\ queue' = <<>>
                /\ unfinished' = 0
                /\ total_file_count' = 0
                /\ planned' = <<>>
                /\ UNCHANGED <<dstDirs, dstFiles>>
           ELSE /\ pc' = "Planned"
                /\ trail' = trail
                /\ dstDirs' = dstDirs \cup Range(folders)
                /\ dstFiles' = st.dst
                /\ queue' = st.q
                /\ unfinished' = Len(st.q)
                /\ total_file_count' = st.total
                /\ planned' = st.q
    /\ stopping' = FALSE
    /\ copied_file_count' = 0
    /\ threads' = {}
    /\ wpc' = NoWorker
    /\ wtask' = NoTask
    /\ faults' = 0
    /\ dequeued' = <<>>
    /\ stopAt' = NotStopped
    /\ UNCHANGED <<fsVars, argVars, guiVars, timeVars, logVars, session, injected,
                   dst0, prev>>

\* A session thread that starts the workers whatever was planned.
StartWorkersAlways ==
    /\ pc = "Planned"
    /\ threads' = IF stopping THEN {} ELSE 1..Len(sources_dirs)
    /\ wpc' = [w \in Workers |->
                  IF stopping \/ w > Len(sources_dirs) THEN wpc[w] ELSE "get"]
    /\ pc' = "CopyingActive"
    /\ trail' = Append(trail, "CopyingActive")
    /\ UNCHANGED <<fsVars, argVars, guiVars, timeVars, logVars, stopAt, dstDirs,
                   dstFiles, stopping, queue, unfinished, total_file_count,
                   copied_file_count, wtask, session, faults, injected,
                   planned, dequeued, dst0, prev>>

\* ThreadedCopy.start(len(sources_dirs)), taken when total_file_count > 0.
StartWorkers ==
    /\ pc = "Planned"
    /\ total_file_count > 0
    /\ threads' = IF stopping THEN {} ELSE 1..Len(sources_dirs)
    /\ wpc' = [w \in Workers |->
                  IF stopping \/ w > Len(sources_dirs) THEN wpc[w] ELSE "get"]
    /\ pc' = "CopyingActive"
    /\ trail' = Append(trail, "CopyingActive")
    /\ UNCHANGED <<fsVars, argVars, guiVars, timeVars, logVars, stopAt, dstDirs, dstFiles, stopping, queue, unfinished,
                   total_file_count, copied_file_count, wtask, session, faults, injected,
                   planned, dequeued, dst0, prev>>

\* A session thread that may report "nothing to copy" whatever was planned.
ReportNothingAlways ==
    /\ pc = "Planned"
    /\ pc' = "Summarised"
    /\ trail' = Append(trail, "Summarised")
    /\ UNCHANGED <<fsVars, argVars, guiVars, timeVars, logVars, stopAt, dstDirs, dstFiles, stopping, queue, unfinished,
                   total_file_count, copied_file_count, threads, wpc, wtask,
                   session, faults, injected, planned, dequeued, dst0, prev>>

\* The else branch: log "Finished. Nothing to copy."
ReportNothing ==
    /\ pc = "Planned"
    /\ ~(total_file_count > 0)
    /\ pc' = "Summarised"
    /\ trail' = Append(trail, "Summarised")
    /\ UNCHANGED <<fsVars, argVars, guiVars, timeVars, logVars, stopAt, dstDirs, dstFiles, stopping, queue, unfinished,
                   total_file_count, copied_file_count, threads, wpc, wtask,
                   session, faults, injected, planned, dequeued, dst0, prev>>

\* The session thread calls wait() and blocks in Queue.join().
WaitCall ==
    /\ pc = "CopyingActive"
    /\ pc' = "Draining"
    /\ trail' = Append(trail, "Draining")
    /\ UNCHANGED <<fsVars, argVars, guiVars, timeVars, logVars, stopAt, dstDirs, dstFiles, stopping, queue, unfinished,
                   total_file_count, copied_file_count, threads, wpc, wtask,
                   session, faults, injected, planned, dequeued, dst0, prev>>

\* A join that returns while one item is still being processed.
JoinReturnsEarly(n) == n <= 1

\* Queue.join() returns once unfinished_tasks is zero.
JoinReturns(n) == n = 0

WaitReturn ==
    /\ pc = "Draining"
    /\ JoinReturns(unfinished)
    /\ pc' = "Drained"
    /\ trail' = Append(trail, "Drained")
    /\ UNCHANGED <<fsVars, argVars, guiVars, timeVars, logVars, stopAt, dstDirs, dstFiles, stopping, queue, unfinished,
                   total_file_count, copied_file_count, threads, wpc, wtask,
                   session, faults, injected, planned, dequeued, dst0, prev>>

\* A worker is inside shutil.copy or about to count it.
Copying(w) == wpc[w] \in {"copy", "write", "count"}

\* for i in self._threads: self._file_queue.put((None, None))
RECURSIVE PutSentinels(_, _)
PutSentinels(q, n) == IF n = 0 THEN q ELSE PutSentinels(Append(q, Sentinel), n - 1)

\* ThreadedCopy.stop() up to the joins: set the flag, one sentinel per thread.
StopBody ==
    /\ stopping' = TRUE
    /\ queue' = PutSentinels(queue, Cardinality(threads))
    /\ unfinished' = unfinished + Cardinality(threads)
    /\ stopAt' = IF stopping THEN stopAt
                 ELSE [handed |-> dequeued,
                       inflight |-> {w \in Workers : Copying(w)},
                       copied |-> copied_file_count,
                       faults |-> faults]

Stop ==
    /\ pc = "Drained"
    /\ StopBody
    /\ pc' = "Joining"
    /\ trail' = Append(trail, "Joining")
    /\ UNCHANGED <<fsVars, argVars, guiVars, timeVars, logVars, dstDirs, dstFiles, total_file_count, copied_file_count,
                   threads, wpc, wtask, session, faults, injected, planned, dequeued, dst0,
                   prev>>

\* for t in self._threads: t.join(2).  Each join returns when its thread has
\* ended or after the timeout, so stop() returns whatever the workers do.
JoinTimeout ==
    /\ pc = "Joining"
    /\ pc' = "Stopped"
    /\ trail' = Append(trail, "Stopped")
    /\ UNCHANGED <<fsVars, argVars, guiVars, timeVars, logVars, stopAt, dstDirs, dstFiles, stopping, queue, unfinished,
                   total_file_count, copied_file_count, threads, wpc, wtask,
                   session, faults, injected, planned, dequeued, dst0, prev>>

\* The wall-clock times, in milliseconds, between start = time() and
\* end = time() that a session may take.
ElapsedMs == {0, 1, 999, 1000, 1001, 2000}

\* A duration that truncates and adds nothing.
DurationTruncated(ms) == ms \div 1000

\* duration = int(end - start)+1
Duration(ms) == (ms \div 1000) + 1

\* end = time(); duration = ...;
\* log_callback("++ Finished copying {copied} of {total} files in {duration}s. ++")
Summary ==
    /\ pc = "Stopped"
    /\ pc' = "Summarised"
    /\ trail' = Append(trail, "Summarised")
    /\ \E ms \in ElapsedMs :
          /\ elapsed' = ms
          /\ duration' = Duration(ms)
    /\ UNCHANGED <<fsVars, argVars, guiVars, logVars, stopAt, dstDirs, dstFiles,
                   stopping, queue, unfinished, total_file_count,
                   copied_file_count, threads, wpc, wtask, session, faults,
                   injected, planned, dequeued, dst0, prev>>

\* self.done_callback(): the <<done_callback>> event is generated and
\* start_copy returns (its locals are gone).
DoneCallback ==
    /\ pc = "Summarised"
    /\ pc' = "Reported"
    /\ trail' = Append(trail, "Reported")
    /\ prev' = [faults |-> faults, copied |-> copied_file_count,
                total |-> total_file_count]
    /\ elapsed' = 0
    /\ duration' = 0
    /\ UNCHANGED <<fsVars, argVars, guiVars, logVars, stopAt, dstDirs, dstFiles,
                   stopping, queue, unfinished, total_file_count,
                   copied_file_count, threads, wpc, wtask, session, faults,
                   injected, planned, dequeued, dst0>>

\* BatchCopy._on_done_callback on the GUI thread: the Start button is enabled.
OnDone ==
    /\ pc = "Reported"
    /\ pc' = "Idle"
    /\ button_start' = "normal"
    /\ UNCHANGED <<fsVars, argVars, timeVars, logVars, stopAt, target_exists,
                   copying, started, dstDirs, dstFiles, stopping, queue,
                   unfinished, total_file_count, copied_file_count, threads, wpc,
                   wtask, session, faults, injected, planned, dequeued, dst0,
                   prev, trail>>

\* ------------------------------------------------------------------------
\* ThreadedCopy._worker_func: one worker thread
\* ------------------------------------------------------------------------

Max(a, b) == IF a >= b THEN a ELSE b

\* The file shutil.copy(source, dest) writes: dest/<basename of source>.
CopyTarget(task) == <<task.dest[2], task.source[3]>>

\* shutil.copy opens the destination file for writing: created or truncated.
CopyOpen(files, path) == Remove(files, path) \cup {<<path, 0>>}

\* shutil.copy writes the n bytes of the source from offset 0.  Another writer
\* of the same file may have written past n in the meantime.
CopyWrite(files, path, n) ==
    LET cur == IF Exists(files, path) THEN GetSize(files, path) ELSE 0
    IN  Remove(files, path) \cup {<<path, Max(cur, n)>>}

\* The outcomes the environment allows for one step of a copy.
Outcomes == IF injected < MaxFaults THEN {"ok", "error"} ELSE {"ok"}

\* A test that forgets the stopping flag.
ShouldCopyIgnoreStop(item, stop) == item.source # None /\ item.dest # None

\* if source and dest and not self._stopping
ShouldCopy(item, stop) == item.source # None /\ item.dest # None /\ ~stop

\* Queue.get(): the item handed out and the queue left behind.
QueueGet(q) == [item |-> Head(q), rest |-> Tail(q)]

\* source, dest = self._file_queue.get()
WorkerGet(w) ==
    /\ w \in threads
    /\ wpc[w] = "get"
    /\ queue # <<>>
    /\ LET got == QueueGet(queue)
       IN  /\ queue' = got.rest
           /\ wtask' = [wtask EXCEPT ![w] = got.item]
           /\ dequeued' = Append(dequeued, got.item)
    /\ wpc' = [wpc EXCEPT ![w] = "test"]
    /\ UNCHANGED <<fsVars, argVars, guiVars, timeVars, logVars, stopAt, dstDirs,
                   dstFiles, pc, stopping, unfinished, total_file_count,
                   copied_file_count, threads, session, faults, injected,
                   planned, dst0, prev, trail>>

\* The test of the item against the flag as it is now: copy, or break.
WorkerTest(w) ==
    /\ wpc[w] = "test"
    /\ wpc' = [wpc EXCEPT ![w] = IF ShouldCopy(wtask[w], stopping)
                                 THEN "copy" ELSE "break"]
    /\ UNCHANGED <<fsVars, argVars, guiVars, timeVars, logVars, stopAt, dstDirs,
                   dstFiles, pc, stopping, queue, unfinished, total_file_count,
                   copied_file_count, threads, wtask, session, faults, injected,
                   planned, dequeued, dst0, prev, trail>>

\* A worker that a copy error kills: the exception leaves the loop and the
\* item is never marked done.
WorkerOpenFatal(w) ==
    /\ wpc[w] = "copy"
    /\ \E outcome \in Outcomes :
          IF outcome = "ok"
          THEN /\ dstFiles' = CopyOpen(dstFiles, CopyTarget(wtask[w]))
               /\ wpc' = [wpc EXCEPT ![w] = "write"]
               /\ faults' = faults
               /\ injected' = injected
          ELSE /\ dstFiles' = dstFiles
               /\ wpc' = [wpc EXCEPT ![w] = "exited"]
               /\ faults' = faults + 1
               /\ injected' = injected + 1
    /\ UNCHANGED <<fsVars, argVars, guiVars, timeVars, logVars, stopAt, dstDirs, pc, stopping, queue, unfinished,
                   total_file_count, copied_file_count, threads, wtask, session,
                   planned, dequeued, dst0, prev, trail>>

\* shutil.copy, first half: open the destination, or raise.
WorkerOpen(w) ==
    /\ wpc[w] = "copy"
    /\ \E outcome \in Outcomes :
          IF outcome = "ok"
          THEN /\ dstFiles' = CopyOpen(dstFiles, CopyTarget(wtask[w]))
               /\ wpc' = [wpc EXCEPT ![w] = "write"]
               /\ faults' = faults
               /\ injected' = injected
          ELSE /\ dstFiles' = dstFiles
               /\ wpc' = [wpc EXCEPT ![w] = "finally"]
               /\ faults' = faults + 1
               /\ injected' = injected + 1
    /\ UNCHANGED <<fsVars, argVars, guiVars, timeVars, logVars, stopAt, dstDirs, pc, stopping, queue, unfinished,
                   total_file_count, copied_file_count, threads, wtask, session,
                   planned, dequeued, dst0, prev, trail>>

\* shutil.copy, second half: write the bytes, or raise leaving a partial file.
WorkerWrite(w) ==
    /\ wpc[w] = "write"
    /\ \E outcome \in Outcomes :
          IF outcome = "ok"
          THEN /\ dstFiles' = CopyWrite(dstFiles, CopyTarget(wtask[w]),
                                        GetSize(srcFiles, wtask[w].source))
               /\ wpc' = [wpc EXCEPT ![w] = "count"]
               /\ faults' = faults
               /\ injected' = injected
          ELSE /\ dstFiles' = dstFiles
               /\ wpc' = [wpc EXCEPT ![w] = "finally"]
               /\ faults' = faults + 1
               /\ injected' = injected + 1
    /\ UNCHANGED <<fsVars, argVars, guiVars, timeVars, logVars, stopAt, dstDirs, pc, stopping, queue, unfinished,
                   total_file_count, copied_file_count, threads, wtask, session,
                   planned, dequeued, dst0, prev, trail>>

\* A counter that counts a copy twice.
IncrementTwice(n) == n + 2

\* A counter that loses the update.
IncrementLost(n) == n

\* with self.lock: self.copied_file_count += 1
Increment(n) == n + 1

WorkerCount(w) ==
    /\ wpc[w] = "count"
    /\ copied_file_count' = Increment(copied_file_count)
    /\ wpc' = [wpc EXCEPT ![w] = "finally"]
    /\ UNCHANGED <<fsVars, argVars, guiVars, timeVars, logVars, stopAt, dstDirs, dstFiles, pc, stopping, queue, unfinished,
                   total_file_count, threads, wtask, session, faults, injected, planned,
                   dequeued, dst0, prev, trail>>

\* finally: self._file_queue.task_done(); then loop, or leave after a break.
WorkerTaskDone(w) ==
    /\ wpc[w] \in {"finally", "break"}
    /\ unfinished' = unfinished - 1
    /\ wpc' = [wpc EXCEPT ![w] = IF wpc[w] = "break" THEN "exited" ELSE "get"]
    /\ UNCHANGED <<fsVars, argVars, guiVars, timeVars, logVars, stopAt, dstDirs, dstFiles, pc, stopping, queue,
                   total_file_count, copied_file_count, threads, wtask, session,
                   faults, injected, planned, dequeued, dst0, prev, trail>>

Worker(w) ==
    \/ WorkerGet(w)
    \/ WorkerTest(w)
    \/ WorkerOpen(w)
    \/ WorkerWrite(w)
    \/ WorkerCount(w)
    \/ WorkerTaskDone(w)

\* ------------------------------------------------------------------------
\* The program
\* ------------------------------------------------------------------------

\* The steps of start_copy on the branch total_file_count > 0.
CopySteps ==
    \/ Plan
    \/ StartWorkers
    \/ WaitCall
    \/ WaitReturn
    \/ Stop
    \/ JoinTimeout
    \/ Summary
    \/ DoneCallback

SessionThread ==
    \/ CopySteps
    \/ ReportNothing

Next ==
    \/ OnStart
    \/ OnDone
    \/ SessionThread
    \/ \E w \in Workers : Worker(w)

Spec == Init /\ [][Next]_vars

\* The threads are scheduled by the operating system: a thread that can take
\* a step eventually takes one.
Fairness ==
    /\ WF_vars(SessionThread)
    /\ \A w \in Workers : WF_vars(Worker(w))

FairSpec == Spec /\ Fairness

\* The program started on an empty target, with recordings on card A only.
InitOneCard ==
    /\ Init
    /\ dstFiles = {}
    /\ \A e \in srcFiles : e[1][1] = "A"

SpecOneCard == InitOneCard /\ [][Next]_vars

FairSpecOneCard == SpecOneCard /\ Fairness

\* ------------------------------------------------------------------------
\* The example scenario: two cards with the same two files, target empty
\* ------------------------------------------------------------------------

ExampleFiles ==
    {<< <<s, "VID_001", "f1.bin">>, 10 >> : s \in Range(Sources)}
    \cup {<< <<s, "VID_001", "f2.bin">>, 20 >> : s \in Range(Sources)}

InitExample ==
    /\ srcFiles = ExampleFiles
    /\ srcDirs = {<<e[1][1], e[1][2]>> : e \in srcFiles}
    /\ dstFiles = {}
    /\ dstDirs = {}
    /\ mkdirFails = FALSE
    /\ pc = "Idle"
    /\ stopping = FALSE
    /\ queue = <<>>
    /\ unfinished = 0
    /\ total_file_count = 0
    /\ copied_file_count = 0
    /\ threads = {}
    /\ wpc = NoWorker
    /\ wtask = NoTask
    /\ session = 0
    /\ faults = 0
    /\ injected = 0
    /\ planned = <<>>
    /\ dequeued = <<>>
    /\ dst0 = dstFiles
    /\ prev = [faults |-> 0, copied |-> 0, total |-> 0]
    /\ trail = <<>>
    /\ FreshProgram
    /\ ReadyToCopy

SpecExample == InitExample /\ [][Next]_vars

FairSpecExample == SpecExample /\ Fairness

\* ------------------------------------------------------------------------
\* The Start button pressed in any configuration of the window
\* ------------------------------------------------------------------------

\* No ThreadedCopy object has been made yet.
NoSession ==
    /\ pc = "Idle"
    /\ stopping = FALSE
    /\ queue = <<>>
    /\ unfinished = 0
    /\ total_file_count = 0
    /\ copied_file_count = 0
    /\ threads = {}
    /\ wpc = NoWorker
    /\ wtask = NoTask
    /\ session = 0
    /\ faults = 0
    /\ injected = 0
    /\ planned = <<>>
    /\ dequeued = <<>>
    /\ dst0 = dstFiles
    /\ prev = [faults |-> 0, copied |-> 0, total |-> 0]
    /\ trail = <<>>

\* Each card holds one recording; the target, when it exists, may hold a
\* stale copy of it.
StartFiles == {<< <<s, "VID_001", "f1.bin">>, 10 >> : s \in Range(Sources)}

InitStart ==
    /\ srcFiles = StartFiles
    /\ srcDirs = {<<e[1][1], e[1][2]>> : e \in srcFiles}
    /\ sources_dirs \in {<<>>, Sources}
    /\ startswith = StartsWithPrefixes
    /\ target_dir \in {"", Target}
    /\ target_exists \in BOOLEAN
    /\ target_dir = "" => ~target_exists
    /\ dstFiles \in {{}, {<< <<"VID_001", "f1.bin">>, 20 >>}}
    /\ ~target_exists => dstFiles = {}
    /\ dstDirs = {e[1][1] : e \in dstFiles}
    /\ mkdirFails \in BOOLEAN
    /\ used_space \in ByteCounts
    /\ free_space \in ByteCounts
    /\ NoSession
    /\ button_start = "normal"
    /\ copying = FALSE
    /\ started = "never"
    /\ stopAt = NotStopped
    /\ elapsed = 0
    /\ duration = 0
    /\ unprocessed_logs = <<>>
    /\ rendered = <<>>
    /\ appended = <<>>
    /\ lock = "free"
    /\ events = 0
    /\ lpc = [t \in Loggers |-> "idle"]
    /\ hpc = "idle"

SpecStart == InitStart /\ [][Next]_vars

\* ------------------------------------------------------------------------
\* Start attempts while the user edits the source list
\* ------------------------------------------------------------------------

\* The sequence without its i-th entry.
DeleteAt(seq, i) == SubSeq(seq, 1, i - 1) \o SubSeq(seq, i + 1, Len(seq))

\* BatchCopy._on_remove_source_dir: the selected entry leaves the list box
\* (without a selection the handler returns).  The bytes the remaining
\* cards hold are no more than before.  start_copy works on the list that
\* _on_start read (line 363), so a removal while a session thread is alive
\* does not reach it: the removals taken here are those between sessions.
OnRemoveSourceDir ==
    /\ pc = "Idle"
    /\ \E i \in 1..Len(sources_dirs) :
           sources_dirs' = DeleteAt(sources_dirs, i)
    /\ \E u \in ByteCounts : u <= used_space /\ used_space' = u
    /\ UNCHANGED <<fsVars, guiVars, timeVars, logVars, stopAt, startswith,
                   target_dir, free_space, dstDirs, dstFiles, pc, stopping,
                   queue, unfinished, total_file_count, copied_file_count,
                   threads, wpc, wtask, session, faults, injected, planned,
                   dequeued, dst0, prev, trail>>

\* Both cards are listed with one recording each, and the target has room.
InitAttempts ==
    /\ InitStart
    /\ sources_dirs = Sources
    /\ target_dir = Target
    /\ target_exists
    /\ ~mkdirFails
    /\ used_space = 1
    /\ free_space = 268435457

NextAttempts ==
    \/ Next
    \/ OnRemoveSourceDir

SpecAttempts == InitAttempts /\ [][NextAttempts]_vars

\* ------------------------------------------------------------------------
\* ThreadedCopy.init called with any source list and any prefix tuple
\* ------------------------------------------------------------------------

\* Source lists: one card, both cards in either order, one card listed twice.
SourceLists == {<<"A">>, <<"A", "B">>, <<"B", "A">>, <<"A", "A">>}

\* Prefix tuples: the one _on_start passes, and two in which both prefixes
\* match the folder VID_001.
PrefixTuples ==
    {StartsWithPrefixes,
     << <<"V", "I", "D", "_">>, <<"V", "I", "D", "_", "0">> >>,
     << <<"V">>, <<"V", "I", "D", "_">> >>}

\* A caller is about to run init(sources, target, startswith) on a new object.
InitArgs ==
    /\ \E tree \in SUBSET SrcEntries :
          /\ Functional(tree)
          /\ srcFiles = tree \cup FixedEntries
    /\ srcDirs = {<<e[1][1], e[1][2]>> : e \in srcFiles}
    /\ \E tree \in SUBSET DstEntries :
          /\ Functional(tree)
          /\ dstFiles = tree
    /\ dstDirs = {e[1][1] : e \in dstFiles}
    /\ mkdirFails \in BOOLEAN
    /\ sources_dirs \in SourceLists
    /\ startswith \in PrefixTuples
    /\ target_dir = Target
    /\ target_exists = TRUE
    /\ used_space = 1
    /\ free_space = 268435457
    /\ pc = "Planning"
    /\ stopping = FALSE
    /\ queue = <<>>
    /\ unfinished = 0
    /\ total_file_count = 0
    /\ copied_file_count = 0
    /\ threads = {}
    /\ wpc = NoWorker
    /\ wtask = NoTask
    /\ session = 1
    /\ faults = 0
    /\ injected = 0
    /\ planned = <<>>
    /\ dequeued = <<>>
    /\ dst0 = dstFiles
    /\ prev = [faults |-> 0, copied |-> 0, total |-> 0]
    /\ trail = <<"Planning">>
    /\ FreshProgram

SpecInit == InitArgs /\ [][Plan]_vars

\* ------------------------------------------------------------------------
\* BatchCopy.log_callback and BatchCopy._on_log_callback: the log hand-off
\* ------------------------------------------------------------------------

\* The lines a logging thread already put into the buffer.
LinesBy(t) == Cardinality({i \in 1..Len(appended) : appended[i][1] = t})

\* A lock that never makes anyone wait.
LockFreeIgnored(l) == TRUE

\* self._lock.acquire() returns once no thread holds the lock.
LockFree(l) == l = "free"

\* log_callback(text) on thread t: self._lock.acquire()
LogAcquire(t) ==
    /\ lpc[t] = "idle"
    /\ Len(appended) + Cardinality({u \in Loggers : lpc[u] = "append"}) < MaxLines
    /\ LockFree(lock)
    /\ lock' = t
    /\ lpc' = [lpc EXCEPT ![t] = "append"]
    /\ UNCHANGED <<unprocessed_logs, rendered, appended, events, hpc>>

\* self._unprocessed_logs.append(text)
LogAppend(t) ==
    /\ lpc[t] = "append"
    /\ LET text == <<t, LinesBy(t) + 1>>
       IN  /\ unprocessed_logs' = Append(unprocessed_logs, text)
           /\ appended' = Append(appended, text)
    /\ lpc' = [lpc EXCEPT ![t] = "release"]
    /\ UNCHANGED <<rendered, lock, events, hpc>>

\* finally: self._lock.release()
LogRelease(t) ==
    /\ lpc[t] = "release"
    /\ lock' = "free"
    /\ lpc' = [lpc EXCEPT ![t] = "event"]
    /\ UNCHANGED <<unprocessed_logs, rendered, appended, events, hpc>>

\* self.root.event_generate("<<log_callback>>")
LogEvent(t) ==
    /\ lpc[t] = "event"
    /\ events' = events + 1
    /\ lpc' = [lpc EXCEPT ![t] = "idle"]
    /\ UNCHANGED <<unprocessed_logs, rendered, appended, lock, hpc>>

Logger(t) ==
    /\ \/ LogAcquire(t)
       \/ LogAppend(t)
       \/ LogRelease(t)
       \/ LogEvent(t)
    /\ UNCHANGED <<fsVars, argVars, guiVars, timeVars, stopAt, dstDirs, dstFiles,
                   pc, stopping, queue, unfinished, total_file_count,
                   copied_file_count, threads, wpc, wtask, session, faults,
                   injected, planned, dequeued, dst0, prev, trail>>

\* _on_log_callback, run by the GUI thread for one <<log_callback>> event:
\* self._lock.acquire()
HandlerAcquire ==
    /\ hpc = "idle"
    /\ events > 0
    /\ LockFree(lock)
    /\ events' = events - 1
    /\ lock' = "gui"
    /\ hpc' = "render"
    /\ UNCHANGED <<unprocessed_logs, rendered, appended, lpc>>

\* for text in self._unprocessed_logs: self.log(text)
HandlerRender ==
    /\ hpc = "render"
    /\ rendered' = rendered \o unprocessed_logs
    /\ hpc' = "clear"
    /\ UNCHANGED <<unprocessed_logs, appended, lock, events, lpc>>

\* self._unprocessed_logs.clear()
HandlerClear ==
    /\ hpc = "clear"
    /\ unprocessed_logs' = <<>>
    /\ hpc' = "release"
    /\ UNCHANGED <<rendered, appended, lock, events, lpc>>

\* finally: self._lock.release()
HandlerRelease ==
    /\ hpc = "release"
    /\ lock' = "free"
    /\ hpc' = "idle"
    /\ UNCHANGED <<unprocessed_logs, rendered, appended, events, lpc>>

Handler ==
    /\ \/ HandlerAcquire
       \/ HandlerRender
       \/ HandlerClear
       \/ HandlerRelease
    /\ UNCHANGED <<fsVars, argVars, guiVars, timeVars, stopAt, dstDirs, dstFiles,
                   pc, stopping, queue, unfinished, total_file_count,
                   copied_file_count, threads, wpc, wtask, session, faults,
                   injected, planned, dequeued, dst0, prev, trail>>

NextLog ==
    \/ \E t \in Loggers : Logger(t)
    \/ Handler

SpecLog == InitExample /\ [][NextLog]_vars

\* A thread inside log_callback goes on, and the main loop of the GUI thread
\* delivers every event.
FairSpecLog ==
    /\ SpecLog
    /\ WF_vars(Handler)
    /\ \A t \in Loggers : WF_vars(Logger(t))

\* ------------------------------------------------------------------------
\* ThreadedCopy used by a caller that cancels: stop() while workers run
\* ------------------------------------------------------------------------

\* Another thread calls stop() on the running pool (the joins of stop() change
\* nothing and are left to the caller).
Cancel ==
    /\ pc \in {"CopyingActive", "Draining"}
    /\ ~stopping
    /\ StopBody
    /\ UNCHANGED <<fsVars, argVars, guiVars, timeVars, logVars, dstDirs, dstFiles, pc, total_file_count,
                   copied_file_count, threads, wpc, wtask, session, faults, injected,
                   planned, dequeued, dst0, prev, trail>>

\* One session of the example scenario, with a caller that may cancel it.
NextCancel ==
    \/ OnStart
    \/ CopySteps
    \/ \E w \in Workers : Worker(w)
    \/ Cancel

SpecCancel == InitExample /\ [][NextCancel]_vars

FairSpecCancel ==
    /\ SpecCancel
    /\ WF_vars(CopySteps)
    /\ \A w \in Workers : WF_vars(Worker(w))

\* ------------------------------------------------------------------------
\* Properties
\* ------------------------------------------------------------------------

\* The tasks of the current session whose processing has ended.
Processed == Len(planned) - Len(queue)

\* C1: in every reachable state of a session, whatever the interleaving of
\* the workers and whichever copies fail, copied_file_count never exceeds
\* total_file_count.
C1_CopiedAtMostTotal == copied_file_count <= total_file_count

\* A session that ended with a failed copy and with copies counted.
C1_Witness ==
    /\ pc = "Summarised"
    /\ faults > 0
    /\ copied_file_count > 0
    /\ copied_file_count < total_file_count

\* C2: when K > W tasks were submitted, no copy failed and stop() has not been
\* called, then at the return of wait() the counter is exactly K and get() has
\* handed out each task exactly once, in every interleaving.
C2_ExactCount ==
    (/\ pc = "Drained"
     /\ faults = 0
    /\ injected = 0
     /\ Len(planned) > Cardinality(threads))
    => /\ copied_file_count = Len(planned)
       /\ dequeued = planned
       /\ \A i, j \in 1..Len(planned) : planned[i] = planned[j] => i = j

\* wait() has returned after four tasks went through two workers.
C2_Witness ==
    /\ pc = "Drained"
    /\ faults = 0
    /\ injected = 0
    /\ Cardinality(threads) = 2
    /\ Len(planned) = 4
    /\ copied_file_count = 4

\* A recording folder: its name starts with one of the prefixes.
Eligible(folder) ==
    \E i \in 1..Len(StartsWithPrefixes) : StartsWith(NameChars(folder), StartsWithPrefixes[i])

\* The source files init looks at.
EligibleFiles == {e \in srcFiles : Eligible(e[1][2])}

\* The destination file that is the counterpart of a source file.
Counterpart(e) == <<e[1][2], e[1][3]>>

\* Another card holds a file of the same folder and name in another size.
DifferentTwin(e) ==
    \E o \in EligibleFiles : Counterpart(o) = Counterpart(e) /\ o[2] # e[2]

\* The destination held a counterpart of e in another size when the session began.
Stale(e) ==
    /\ Exists(dst0, Counterpart(e))
    /\ GetSize(dst0, Counterpart(e)) # e[2]

Leaving(w) == wpc[w] \in {"break", "exited"}

\* A step in which stop() sets the flag and enqueues its sentinels.
StopStep == ~stopping /\ stopping'

\* C5: stop() called while the workers run enqueues exactly one sentinel per
\* started worker; once the flag is set no worker starts another copy, a worker
\* that has dequeued a sentinel copies nothing and counts nothing, and every
\* worker eventually leaves its loop.
C5_Cancellation ==
    /\ [][StopStep =>
            /\ Cardinality(threads) = Len(Sources)
            /\ queue' = queue \o [i \in 1..Cardinality(threads) |-> Sentinel]]_vars
    /\ [][\A w \in Workers :
            /\ (stopping /\ Copying(w)') => Copying(w)
            /\ Leaving(w) => (Leaving(w)' /\ wtask'[w] = wtask[w])
            /\ (wtask'[w] = Sentinel /\ w \in threads') => ~Copying(w)']_vars
    /\ (stopping /\ threads # {}) ~> (\A w \in threads : wpc[w] = "exited")

\* stop() came while tasks were queued and a copy was in flight; that copy was
\* finished and counted, both workers have left and tasks remain in the queue.
C5_Witness ==
    /\ stopping
    /\ pc = "Draining"
    /\ \A w \in threads : wpc[w] = "exited"
    /\ threads = Workers
    /\ copied_file_count > 0
    /\ \E i \in 1..Len(queue) : queue[i] # Sentinel

\* C6: whenever wait() has returned, every task submitted before the call has
\* been handed out and marked done and no worker is inside a copy: the queue
\* being empty is not enough.
C6_DrainBarrier ==
    pc = "Drained" =>
        /\ queue = <<>>
        /\ unfinished = 0
        /\ dequeued = planned
        /\ \A w \in threads : wpc[w] = "get"

\* wait() has returned from a session of four tasks, one of which failed.
C6_Witness ==
    /\ pc = "Drained"
    /\ Len(planned) = 4
    /\ faults = 1
    /\ copied_file_count = 3

\* A step in which the copy of worker w raises.
FailStep(w) == faults' = faults + 1 /\ wpc'[w] # wpc[w]

\* C7: a copy that raises does not count, its worker marks the item done and
\* returns to get(), all other tasks are processed, and the session drains and
\* is reported (with copied < planned).
C7_FailureIsolation ==
    /\ [][\A w \in Workers :
            FailStep(w) => /\ wpc'[w] = "finally"
                           /\ copied_file_count' = copied_file_count
                           /\ queue' = queue]_vars
    /\ [](pc = "Drained" =>
            /\ copied_file_count = Len(planned) - faults
            /\ dequeued = planned
            /\ \A w \in threads : wpc[w] = "get")
    /\ (faults > 0 /\ pc \in {"CopyingActive", "Draining"})
          ~> (pc = "Reported" /\ copied_file_count = total_file_count - faults)

\* A session with a failed copy has been reported with fewer copies than planned.
C7_Witness ==
    /\ pc = "Reported"
    /\ faults = 1
    /\ total_file_count = 4
    /\ copied_file_count = 3

\* The task init enqueues for a source file.
TaskOf(e) == [source |-> e[1], dest |-> <<Target, e[1][2]>>]

\* C8: a recording folder that some cards lack does not abort planning: when
\* init returns, every file of every recording folder on every card is
\* enqueued, unless the destination held it in the same size.
C8_MissingSubfolder ==
    /\ pc = "Crashed" => mkdirFails
    /\ pc = "Planned" =>
          /\ total_file_count = Len(planned)
          /\ \A e \in EligibleFiles :
                \/ TaskOf(e) \in Range(planned)
                \/ /\ Exists(dst0, Counterpart(e))
                   /\ GetSize(dst0, Counterpart(e)) = e[2]

\* Card B lacks VID_001 and card A lacks PIC_001; the files of both folders
\* are planned.
C8_Witness ==
    /\ pc = "Planned"
    /\ <<"A", "VID_001">> \in srcDirs
    /\ <<"B", "VID_001">> \notin srcDirs
    /\ <<"A", "PIC_001">> \notin srcDirs
    /\ <<"B", "PIC_001">> \in srcDirs
    /\ \E i, j \in 1..Len(planned) :
          /\ i < j
          /\ planned[i].source = <<"A", "VID_001", "f1.bin">>
          /\ planned[j].source = <<"B", "PIC_001", "f1.bin">>

\* The destination of the example after a successful run.
ExampleResult == {<< <<"VID_001", "f1.bin">>, 10 >>, << <<"VID_001", "f2.bin">>, 20 >>}

\* C9: in the example scenario planning finds the folder VID_001 once, creates
\* it and enqueues exactly 4 tasks, and after a run without a failed copy the
\* destination holds f1.bin of 10 bytes and f2.bin of 20 bytes, in every
\* interleaving.
C9_Example ==
    /\ (pc = "Planned" /\ session = 1) =>
          /\ CollectFolders(<<>>, srcDirs, Sources, StartsWithPrefixes) = <<"VID_001">>
          /\ dstDirs = {"VID_001"}
          /\ total_file_count = 4
          /\ Len(queue) = 4
          /\ Range(queue) = {TaskOf(e) : e \in ExampleFiles}
    /\ (pc \in {"Drained", "Summarised", "Reported"} /\ session = 1 /\ faults = 0) =>
          /\ copied_file_count = 4
          /\ dstDirs = {"VID_001"}
          /\ dstFiles = ExampleResult

\* The first session of the example has been reported without a failed copy.
C9_Witness ==
    /\ pc = "Reported"
    /\ session = 1
    /\ faults = 0
    /\ copied_file_count = 4
    /\ dstFiles = ExampleResult

\* The positions of a session that copies, and of one that has nothing to copy.
FullTrail ==
    <<"Planning", "CopyingActive", "Draining", "Drained", "Joining", "Stopped",
      "Summarised", "Reported">>

ShortTrail == <<"Planning", "Summarised", "Reported">>

CrashTrail == <<"Planning", "Crashed">>

IsPrefix(s, full) == Len(s) <= Len(full) /\ s = SubSeq(full, 1, Len(s))

C11_ShortCircuit ==
    /\ []((total_file_count = 0 /\ pc # "Planning") =>
            /\ threads = {}
            /\ wpc = NoWorker
            /\ queue = <<>>
            /\ unfinished = 0
            /\ ~stopping)
    /\ [][(pc = "Planned" /\ total_file_count = 0 /\ pc' # pc) =>
            (pc' = "Summarised" /\ trail' = <<"Planning", "Summarised">>)]_vars
    /\ [][(pc = "Summarised" /\ total_file_count = 0 /\ pc' # pc) =>
            (pc' = "Reported" /\ trail' = ShortTrail)]_vars
    /\ [][(threads' # threads /\ threads' # {}) =>
            (pc = "Planned" /\ total_file_count > 0)]_vars

\* A second session found every file in place and was reported at once.
C11_Witness ==
    /\ pc = "Reported"
    /\ session = 2
    /\ Cardinality(EligibleFiles) >= 3
    /\ total_file_count = 0
    /\ trail = ShortTrail
    /\ threads = {}

\* C12: with sources listed and the destination existing, _on_start starts a
\* session exactly when the free bytes of the destination exceed the bytes the
\* sources require, and otherwise aborts with the space report.
C12_SpaceGate ==
    /\ started = "copying" => free_space > used_space
    /\ started = "no space" => free_space <= used_space

\* C13: a step of _on_start that aborts for lack of space has created no
\* directory (the destination root included), deleted and copied no file and
\* run no planner and no worker.
C13_NoSpaceNoIO ==
    [][(OnStart /\ started' = "no space") =>
            /\ target_exists' = target_exists
            /\ dstDirs' = dstDirs
            /\ dstFiles' = dstFiles
            /\ queue' = queue
            /\ total_file_count' = total_file_count
            /\ copied_file_count' = copied_file_count
            /\ threads' = threads
            /\ wpc' = wpc
            /\ pc' = pc]_vars

\* The ceiling of a duration given in milliseconds, in seconds.
CeilSeconds(ms) == (ms + 999) \div 1000

\* C14: the seconds reported in the final summary are the ceiling of the
\* elapsed wall-clock time, and at least 1.
C14_Duration ==
    (pc = "Summarised" /\ total_file_count > 0) =>
        duration = Max(1, CeilSeconds(elapsed))

\* C15: once stop() has set the flag, a task a worker tests against it (any
\* task dequeued afterwards) is not copied and not counted and the worker
\* leaves its loop; stop() interrupts no copy: the copies in flight when the
\* flag was set go on to their end and each is counted unless it fails, and
\* they are the only copies made and counted after the flag.
C15_CooperativeStop ==
    /\ [][\A w \in Workers :
            (stopping /\ wpc[w] = "test" /\ wpc'[w] # "test") =>
                /\ wpc'[w] = "break"
                /\ copied_file_count' = copied_file_count
                /\ dstFiles' = dstFiles]_vars
    /\ [][\A w \in Workers :
            (wpc[w] = "break" /\ wpc'[w] # "break") =>
                /\ wpc'[w] = "exited"
                /\ copied_file_count' = copied_file_count
                /\ dstFiles' = dstFiles]_vars
    /\ [][StopStep =>
            /\ wpc' = wpc
            /\ wtask' = wtask
            /\ dstFiles' = dstFiles
            /\ copied_file_count' = copied_file_count]_vars
    /\ [](stopping =>
            /\ {w \in Workers : Copying(w)} \subseteq stopAt.inflight
            /\ \A w \in Workers :
                  (wpc[w] # "get" /\ wtask[w] \notin Range(stopAt.handed)) =>
                      wpc[w] \in {"unstarted", "test", "break", "exited"}
            /\ copied_file_count + faults
                  + Cardinality({w \in Workers : Copying(w)})
               = stopAt.copied + stopAt.faults + Cardinality(stopAt.inflight))
    /\ \A w \in Workers :
          (stopping /\ wpc[w] \in {"copy", "write"}) ~> (wpc[w] \in {"count", "finally"})
    /\ \A w \in Workers :
          (stopping /\ wpc[w] = "count") ~> (wpc[w] = "exited")

\* After stop() one worker is about to count the copy it had in flight, while
\* the other has dequeued a task and leaves without copying it.
C15_Witness ==
    /\ stopping
    /\ pc \in {"CopyingActive", "Draining"}
    /\ \E w, v \in Workers :
          /\ wpc[w] = "count"
          /\ wpc[v] = "break"
          /\ wtask[v] # Sentinel
          /\ CopyTarget(wtask[v]) \notin {e[1] : e \in dstFiles}

\* The states the planner may be in when it examines a file: what the
\* destination holds, and what has been enqueued and counted so far.
PlannerStates ==
    {[dst |-> d, q |-> q, total |-> Len(q)] :
        d \in {t \in SUBSET (DstEntries \cup {<< <<"VID_001", "f2.bin">>, 10 >>}) :
                  Functional(t)},
        q \in {<<>>, <<TaskOf(<< <<"B", "PIC_001", "f1.bin">>, 10 >>)>>}}

\* C16: for each source file init examines: (i) the destination file exists
\* with the same size: nothing is enqueued and nothing deleted; (ii) it exists
\* with another size: it is deleted and exactly one task is enqueued; (iii) it
\* does not exist: exactly one task (source file, destination/<name>/) is
\* enqueued; and init deletes a destination file in case (ii) only.
C16_PlanningPolicy ==
    /\ pc = "Planning" =>
          \A e \in EligibleFiles : \A st \in PlannerStates :
              LET r == PlanFile(st, srcFiles, e[1][1], e[1][2], e[1][3])
                  d == Counterpart(e)
                  more == /\ r.q = Append(st.q, TaskOf(e))
                          /\ r.total = st.total + 1
              IN  /\ (Exists(st.dst, d) /\ GetSize(st.dst, d) = e[2]) => r = st
                  /\ (Exists(st.dst, d) /\ GetSize(st.dst, d) # e[2]) =>
                        /\ r.dst = {x \in st.dst : x[1] # d}
                        /\ r.dst # st.dst
                        /\ more
                  /\ ~Exists(st.dst, d) => (r.dst = st.dst /\ more)
    /\ pc = "Planned" =>
          /\ dstFiles \subseteq dst0
          /\ \A x \in dst0 \ dstFiles :
                \E e \in EligibleFiles :
                    /\ Counterpart(e) = x[1]
                    /\ e[2] # x[2]
                    /\ TaskOf(e) \in Range(planned)
          /\ \A i \in 1..Len(planned) :
                \E e \in EligibleFiles :
                    /\ planned[i] = TaskOf(e)
                    /\ <<Counterpart(e), e[2]>> \notin dstFiles

\* One plan in which card A's f1.bin was skipped, card A's f2.bin was enqueued
\* as new, and card B's f1.bin of another size had the old copy deleted.
C16_Witness ==
    /\ pc = "Planned"
    /\ dst0 = {<< <<"VID_001", "f1.bin">>, 10 >>}
    /\ << <<"A", "VID_001", "f1.bin">>, 10 >> \in srcFiles
    /\ << <<"B", "VID_001", "f1.bin">>, 20 >> \in srcFiles
    /\ dstFiles = {}
    /\ [i \in 1..Len(planned) |-> planned[i].source] =
          << <<"A", "VID_001", "f2.bin">>, <<"B", "VID_001", "f1.bin">> >>

\* No two tasks init enqueued are the same (source file, destination) pair.
NoDuplicateTask == \A i, j \in 1..Len(planned) : planned[i] = planned[j] => i = j

RealTasks(q) == SelectSeq(q, LAMBDA item : item # Sentinel)

\* The positions of start_copy from the start of the workers to the summary.
Running == {"CopyingActive", "Draining", "Drained", "Joining", "Stopped"}

\* C18: when init returns, total_file_count is the number of tasks it
\* enqueued and no worker has been started; from the start of the workers to
\* the summary no step changes total_file_count or enqueues a copy task.
C18_TotalWriteOnce ==
    /\ [](pc = "Planned" =>
            /\ total_file_count = Len(planned)
            /\ queue = planned
            /\ Sentinel \notin Range(queue)
            /\ threads = {}
            /\ wpc = NoWorker)
    /\ [][(threads' # threads /\ threads' # {}) =>
            /\ pc = "Planned"
            /\ total_file_count' = total_file_count]_vars
    /\ [][(pc \in Running) =>
            /\ total_file_count' = total_file_count
            /\ total_file_count = Len(planned)
            /\ planned' = planned
            /\ \E k \in 0..1 :
                  RealTasks(queue') = SubSeq(RealTasks(queue), k + 1,
                                             Len(RealTasks(queue)))]_vars

\* The summary of a session of three tasks is about to be emitted.
C18_Witness ==
    /\ pc = "Stopped"
    /\ total_file_count = 3
    /\ Len(planned) = 3
    /\ copied_file_count = 3
    /\ Sentinel \in Range(dequeued)

\* C19: every line passed to log_callback is appended to the buffer under
\* the lock and is rendered by the handler of the GUI thread exactly once and
\* in the order of the appends, whatever the interleaving of the appends with
\* the handler's drain and clear; and every appended line is rendered in the
\* end.
C19_LogHandOff ==
    /\ [](\A t \in Loggers : lpc[t] \in {"append", "release"} => lock = t)
    /\ [](hpc # "idle" => lock = "gui")
    /\ [](IF hpc \in {"clear", "release"}
          THEN rendered = appended
          ELSE rendered \o unprocessed_logs = appended)
    /\ [](\A i, j \in 1..Len(rendered) : rendered[i] = rendered[j] => i = j)
    /\ [][IsPrefix(rendered, rendered')]_vars
    /\ []<>(rendered = appended)

\* The handler has drained lines of two threads while another thread holds a
\* further line back, waiting for the lock the handler owns.
C19_Witness ==
    /\ hpc = "clear"
    /\ Len(rendered) = 2
    /\ rendered[1][1] # rendered[2][1]
    /\ \E t \in Loggers : lpc[t] = "idle" /\ LinesBy(t) = 0
    /\ events > 0

\* C20: after a stop() that came while workers ran and tasks were queued, a
\* wait() still returns: every item left in the queue, task or sentinel, is
\* marked done.  Only the workers mark items done, so once stop() has been
\* called and every worker has left its loop no item may be left unmarked.
C20_DrainAfterStop ==
    (/\ stopping
     /\ threads # {}
     /\ \A w \in threads : wpc[w] = "exited")
    => unfinished = 0

\* The ways _on_start returns without having started a copy thread.
Aborted == {"no source", "no target", "target missing", "no space",
            "exception"}

\* C21: whenever _on_start has returned without starting a copy thread, be
\* it the first attempt or one made after a completed session, the Start
\* button is enabled again.
C21_StartRecovery == started \in Aborted => button_start = "normal"

\* The tasks of q that copy a source file named as path into path's folder.
Replacements(q, path) ==
    {i \in 1..Len(q) : /\ q[i].dest = <<Target, path[1]>>
                        /\ q[i].source[2] = path[1]
                        /\ q[i].source[3] = path[2]}

\* The session thread has finished its copies and has not crashed.
SessionOver == session > 0 /\ pc \in {"Summarised", "Reported", "Idle"}

\* C22: a step after which a destination file no longer exists is a step of
\* planning, and that planning pass enqueues a task copying a same-named
\* source file into the same destination folder and counts every task it
\* enqueues in total_file_count; and once a session in which no copy failed
\* is over, every destination file that existed before it exists.
C22_DeletionReplaced ==
    /\ [][\A e \in dstFiles :
              ~Exists(dstFiles', e[1]) =>
                  /\ pc = "Planning"
                  /\ Replacements(planned', e[1]) # {}
                  /\ queue' = planned'
                  /\ total_file_count' = Len(planned')]_vars
    /\ [](SessionOver /\ faults = 0 =>
              \A e \in dst0 : Exists(dstFiles, e[1]))

\* A session without failures is over in which a destination file was
\* deleted by planning and copied anew in another size.
C22_Witness ==
    /\ pc = "Reported"
    /\ faults = 0
    /\ copied_file_count > 0
    /\ \E e \in dst0 : /\ Exists(dstFiles, e[1])
                       /\ GetSize(dstFiles, e[1]) # e[2]

\* The size the file at path has when the planned tasks are copied one after
\* the other in queue order (the interleaving in which one worker takes
\* every task): the size of the source of the last task written to path.
InOrderSize(path) ==
    LET tasks == Replacements(planned, path)
        last  == CHOOSE i \in tasks : \A j \in tasks : j <= i
    IN  GetSize(srcFiles, planned[last].source)

\* C23: once a session in which no copy failed is over, copied_file_count
\* and the size of every destination file the session wrote are what the
\* cards and the initial destination determine, whatever the interleaving
\* of the workers: those of the copies made in queue order.
C23_Determinism ==
    (SessionOver /\ faults = 0) =>
        /\ copied_file_count = total_file_count
        /\ \A e \in dstFiles :
               Replacements(planned, e[1]) # {} => e[2] = InOrderSize(e[1])

====
